---------------------------- MODULE Spec2Model ----------------------------
(***************************************************************************)
(* Model of the financial-tracker backend (src/unnamed/part_000, the Hono  *)
(* server, and src/db/seed.js, the seeding script).                        *)
(*                                                                         *)
(* JavaScript strings are sequences of one-character strings; their order  *)
(* is the order of their code units (Alphabet lists the characters used,   *)
(* in code-unit order).  Money is kept exactly, as a whole number of cents *)
(* plus one further decimal digit (mills, thousandths).  Time is the       *)
(* process clock Date.now(), in milliseconds.                              *)
(***************************************************************************)
EXTENDS Integers, Sequences, FiniteSets

VARIABLES
    secret,     \* process.env.JWT_SECRET is set (read once when the module loads)
    serving,    \* the server accepts requests (serve / globalThis.app)
    now,        \* Date.now(), milliseconds
    ticks,      \* number of clock advances taken (bounds the model)
    users,      \* table users: sequence of rows [id, username, password]
    userSeq,    \* the serial that numbers users rows
    store,      \* table transaction: sequence of rows
    txSeq,      \* the serial that numbers transaction rows
    inserts,    \* number of inserts admitted to the handler (bounds the model)
    issued,     \* history: the tokens minted by a successful login, [token, at]
    loggedOut,  \* history: the tokens whose holder was answered by /api/logout
    pending,    \* per connection slot, the request suspended at its storage statement
    last        \* the request the latest step answered, with its response

vars == <<secret, serving, now, ticks, users, userSeq, store, txSeq, inserts,
          issued, loggedOut, pending, last>>

(***************************************************************************)
(* Bounds of the model.                                                    *)
(***************************************************************************)
MaxTx == 2
MaxUsers == 1
MaxTokens == 1
MaxTicks == 2
MaxSlots == 2

(***************************************************************************)
(* Strings.                                                                *)
(***************************************************************************)
Alphabet ==
    <<" ", "+", "-", "0", "1", "2", "3", "4", "5", "6", "7", "8", "9", ":",
      "a", "b", "c", "d", "e", "f", "x">>

Digits == <<"0", "1", "2", "3", "4", "5", "6", "7", "8", "9">>

HexDigits == Digits \o <<"a", "b", "c", "d", "e", "f">>

\* The code-unit rank of a character.
Rank(c) == CHOOSE i \in 1..Len(Alphabet) : Alphabet[i] = c

\* The value of digit character c in the digit table tbl, or -1.
DigitVal(tbl, c) ==
    IF \E i \in 1..Len(tbl) : tbl[i] = c
    THEN (CHOOSE i \in 1..Len(tbl) : tbl[i] = c) - 1
    ELSE -1

\* The value no query parameter and no body field has when it is absent.
Undefined == <<"undefined">>

\* The order of two strings in the store's date column: code unit by code
\* unit, a proper prefix first.
RECURSIVE StrLess(_, _)
StrLess(a, b) ==
    IF b = <<>> THEN FALSE
    ELSE IF a = <<>> THEN TRUE
    ELSE IF Head(a) = Head(b) THEN StrLess(Tail(a), Tail(b))
    ELSE Rank(Head(a)) < Rank(Head(b))

\* String(n) for an integer n >= 0.
RECURSIVE NumToStr(_)
NumToStr(n) ==
    IF n < 10 THEN <<Digits[n + 1]>>
    ELSE NumToStr(n \div 10) \o <<Digits[(n % 10) + 1]>>

\* s.padStart(2, '0')
PadStart2(s) ==
    IF Len(s) >= 2 THEN s
    ELSE IF Len(s) = 1 THEN <<"0">> \o s
    ELSE <<"0", "0">>

\* The longest prefix of s made of digits of tbl.
RECURSIVE DigitPrefix(_, _)
DigitPrefix(tbl, s) ==
    IF s = <<>> \/ DigitVal(tbl, Head(s)) < 0 THEN <<>>
    ELSE <<Head(s)>> \o DigitPrefix(tbl, Tail(s))

\* The number a digit string denotes in the radix of tbl.
RECURSIVE DigitsValue(_, _, _)
DigitsValue(tbl, s, acc) ==
    IF s = <<>> THEN acc
    ELSE DigitsValue(tbl, Tail(s), acc * Len(tbl) + DigitVal(tbl, Head(s)))

RECURSIVE TrimStart(_)
TrimStart(s) ==
    IF s # <<>> /\ Head(s) = " " THEN TrimStart(Tail(s)) ELSE s

NaN == [nan |-> TRUE, val |-> 0]

\* parseInt(s) without a radix: leading white space, a sign, an optional 0x
\* prefix, then the longest run of digits; NaN when that run is empty.
ParseInt(s) ==
    LET t    == TrimStart(s)
        neg  == t # <<>> /\ Head(t) = "-"
        u    == IF t # <<>> /\ Head(t) \in {"+", "-"} THEN Tail(t) ELSE t
        hex  == Len(u) >= 2 /\ u[1] = "0" /\ u[2] = "x"
        body == IF hex THEN Tail(Tail(u)) ELSE u
        tbl  == IF hex THEN HexDigits ELSE Digits
        d    == DigitPrefix(tbl, body)
    IN  IF d = <<>> THEN NaN
        ELSE [nan |-> FALSE,
              val |-> (IF neg THEN -1 ELSE 1) * DigitsValue(tbl, d, 0)]

(***************************************************************************)
(* Dates as the program writes them.                                       *)
(***************************************************************************)
\* 'YYYY-MM-DD', the form of the literals of the seeding script.
DateOnly(y, m, d) ==
    NumToStr(y) \o <<"-">> \o PadStart2(NumToStr(m)) \o <<"-">> \o PadStart2(NumToStr(d))

\* 'YYYY-MM-DD 00:00:00', midnight of a day in the form of the range bounds.
Midnight(y, m, d) ==
    DateOnly(y, m, d) \o <<" ", "0", "0", ":", "0", "0", ":", "0", "0">>

(***************************************************************************)
(* Money: cents/100 + mills/1000, with mills in 0..9 (cents may be         *)
(* negative, the value is then still cents/100 + mills/1000).              *)
(***************************************************************************)
Amt(c, m) == [null |-> FALSE, cents |-> c, mills |-> m]

NullAmt == [null |-> TRUE, cents |-> 0, mills |-> 0]

AddAmt(a, b) ==
    LET m == a.mills + b.mills
    IN  Amt(a.cents + b.cents + (m \div 10), m % 10)

SubAmt(a, b) ==
    LET m == a.mills - b.mills
    IN  IF m >= 0 THEN Amt(a.cents - b.cents, m)
        ELSE Amt(a.cents - b.cents - 1, m + 10)

\* parseFloat(x.toFixed(2)), in cents: the nearest cent, a tie away from zero.
ToFixed2(a) ==
    IF a.cents >= 0
    THEN a.cents + (IF a.mills >= 5 THEN 1 ELSE 0)
    ELSE a.cents + (IF a.mills >= 6 THEN 1 ELSE 0)

(***************************************************************************)
(* Password hasher (bcryptjs) and session tokens (jsonwebtoken).           *)
(***************************************************************************)
NoField == "<undefined>"

\* bcrypt.hash(password, 10): rejects when password is no string.
BcryptHash(password) ==
    IF password = NoField THEN [threw |-> TRUE, hash |-> NoField]
    ELSE [threw |-> FALSE, hash |-> password]

\* bcrypt.compare(password, hash): rejects when password is no string.
BcryptCompare(password, hash) ==
    IF password = NoField THEN [threw |-> TRUE, same |-> FALSE]
    ELSE [threw |-> FALSE, same |-> (hash = password)]

\* expiresIn: '1d', in seconds (and the cookie's maxAge).
ExpiresIn == 86400

MsPerSecond == 1000

\* Math.floor(Date.now() / 1000), the clock jsonwebtoken reads when it signs
\* (iat) and when it verifies (against exp).
ClockTimestamp(t) == t \div MsPerSecond

NoClaims == [id |-> 0, username |-> NoField, iat |-> 0, exp |-> 0]

Token(kind, claims) == [kind |-> kind, claims |-> claims]

\* What a request may carry as its cookie besides a minted token: nothing,
\* an empty value, text that is no token, a token signed with another key.
NoCookie == Token("none", NoClaims)
EmptyCookie == Token("empty", NoClaims)
GarbageCookie == Token("garbage", NoClaims)

\* jwt.sign({id, username}, SECRET, {expiresIn: '1d'}) at clock t.
JwtSign(user, t) ==
    IF ~secret THEN [threw |-> TRUE, token |-> NoCookie]
    ELSE [threw |-> FALSE,
          token |-> Token("jwt", [id |-> user.id, username |-> user.username,
                                  iat |-> ClockTimestamp(t),
                                  exp |-> ClockTimestamp(t) + ExpiresIn])]

\* jwt.verify that never looks at the expiry.
JwtVerifyNoExpiry(token, t) ==
    IF secret /\ token.kind = "jwt"
    THEN [threw |-> FALSE, payload |-> token.claims]
    ELSE [threw |-> TRUE, payload |-> NoClaims]

\* jwt.verify that still accepts a token in the second of its expiry.
JwtVerifyInclusive(token, t) ==
    IF secret /\ token.kind = "jwt" /\ ClockTimestamp(t) <= token.claims.exp
    THEN [threw |-> FALSE, payload |-> token.claims]
    ELSE [threw |-> TRUE, payload |-> NoClaims]

\* jwt.verify(token, SECRET) at clock t: the payload, or a throw.
JwtVerify(token, t) ==
    IF secret /\ token.kind = "jwt" /\ ClockTimestamp(t) < token.claims.exp
    THEN [threw |-> FALSE, payload |-> token.claims]
    ELSE [threw |-> TRUE, payload |-> NoClaims]

\* !getCookie(c, 'token')
CookieMissing(token) == token.kind \in {"none", "empty"}

(***************************************************************************)
(* The monthly aggregator: GET /api/transaction.                           *)
(***************************************************************************)
MsgRequired == "Tahun dan bulan wajib diisi"
MsgMonth == "Format bulan tidak valid"
MsgYear == "Format tahun tidak valid"

\* !year || !month
ParamMissing(year, month) ==
    year = Undefined \/ year = <<>> \/ month = Undefined \/ month = <<>>

\* isNaN(monthNum) || monthNum < 1 || monthNum > 12
MonthInvalid(monthNum) == monthNum.nan \/ monthNum.val < 1 \/ monthNum.val > 12

\* The year check without its upper bound.
YearInvalidNoUpper(yearNum) == yearNum.nan \/ yearNum.val < 1900

\* isNaN(yearNum) || yearNum < 1900 || yearNum > 2100
YearInvalid(yearNum) == yearNum.nan \/ yearNum.val < 1900 \/ yearNum.val > 2100

\* `${year}-${formattedMonth}-01 00:00:00`, from the query's own text.
StartOfMonth(year, month) ==
    year \o <<"-">> \o PadStart2(month)
         \o <<"-", "0", "1", " ", "0", "0", ":", "0", "0", ":", "0", "0">>

NextMonth(monthNum) == IF monthNum = 12 THEN 1 ELSE monthNum + 1

\* The year of the range end without the roll-over of December.
NextYearSame(yearNum, monthNum) == yearNum

NextYear(yearNum, monthNum) == IF monthNum = 12 THEN yearNum + 1 ELSE yearNum

\* `${nextYear}-${formattedNextMonth}-01 00:00:00`, from the parsed numbers.
EndOfMonth(yearNum, monthNum) ==
    NumToStr(NextYear(yearNum, monthNum)) \o <<"-">>
        \o PadStart2(NumToStr(NextMonth(monthNum)))
        \o <<"-", "0", "1", " ", "0", "0", ":", "0", "0", ":", "0", "0">>

\* The checks of the handler in their order: the message of the first
\* failing one, or the range.
MonthlyRange(year, month) ==
    IF ParamMissing(year, month)
    THEN [status |-> 400, message |-> MsgRequired, start |-> <<>>, end |-> <<>>]
    ELSE IF MonthInvalid(ParseInt(month))
    THEN [status |-> 400, message |-> MsgMonth, start |-> <<>>, end |-> <<>>]
    ELSE IF YearInvalid(ParseInt(year))
    THEN [status |-> 400, message |-> MsgYear, start |-> <<>>, end |-> <<>>]
    ELSE [status |-> 200, message |-> "",
          start |-> StartOfMonth(year, month),
          end |-> EndOfMonth(ParseInt(year).val, ParseInt(month).val)]

\* gte(t.transactionDate, bound) and lt(t.transactionDate, bound) as the
\* store compares its sortable date strings.
DateGte(date, bound) == ~StrLess(date, bound)

DateLt(date, bound) == StrLess(date, bound)

\* The where clause of findMany.
InMonth(t, userId, start, end) ==
    /\ t.userId = userId
    /\ DateGte(t.transactionDate, start)
    /\ DateLt(t.transactionDate, end)

RECURSIVE SelectRows(_, _, _, _)
SelectRows(rows, userId, start, end) ==
    IF rows = <<>> THEN <<>>
    ELSE (IF InMonth(Head(rows), userId, start, end) THEN <<Head(rows)>> ELSE <<>>)
         \o SelectRows(Tail(rows), userId, start, end)

\* One row put into a sequence ordered by date descending, after the rows
\* of its own date.
RECURSIVE InsertDesc(_, _)
InsertDesc(t, sorted) ==
    IF sorted = <<>> THEN <<t>>
    ELSE IF StrLess(Head(sorted).transactionDate, t.transactionDate)
         THEN <<t>> \o sorted
         ELSE <<Head(sorted)>> \o InsertDesc(t, Tail(sorted))

\* orderBy desc(transactionDate)
RECURSIVE OrderByDateDesc(_)
OrderByDateDesc(rows) ==
    IF rows = <<>> THEN <<>>
    ELSE InsertDesc(rows[Len(rows)], OrderByDateDesc(SubSeq(rows, 1, Len(rows) - 1)))

\* db.query.transaction.findMany({where, orderBy})
FindMany(rows, userId, start, end) ==
    OrderByDateDesc(SelectRows(rows, userId, start, end))

\* rows.filter(t => t.status === status && t.nominal != null)
\*     .reduce((sum, t) => sum + parseFloat(t.nominal), 0)
RECURSIVE Total(_, _)
Total(rows, status) ==
    IF rows = <<>> THEN Amt(0, 0)
    ELSE IF Head(rows).status = status /\ ~Head(rows).nominal.null
         THEN AddAmt(Head(rows).nominal, Total(Tail(rows), status))
         ELSE Total(Tail(rows), status)

\* balance = totalIncome - totalOutcome, of the sums before they are rounded.
Balance(totalIncome, totalOutcome) == SubAmt(totalIncome, totalOutcome)

NoSummary == [totalIncome |-> 0, totalOutcome |-> 0, balance |-> 0]

\* The summary of the response, each value in cents.
Summary(rows) ==
    LET totalIncome  == Total(rows, "income")
        totalOutcome == Total(rows, "outcome")
    IN  [totalIncome  |-> ToFixed2(totalIncome),
         totalOutcome |-> ToFixed2(totalOutcome),
         balance      |-> ToFixed2(Balance(totalIncome, totalOutcome))]

(***************************************************************************)
(* Requests and responses.                                                 *)
(***************************************************************************)
NoBody ==
    [malformed |-> FALSE, username |-> NoField, password |-> NoField,
     nominal |-> NullAmt, transactionDate |-> <<>>, status |-> NoField, userId |-> 0]

\* The body of a register or login request.
Credentials(username, password) ==
    [NoBody EXCEPT !.username = username, !.password = password]

\* The body of an insert; userId is a field the client may add to it.
TxBody(nominal, transactionDate, status, userId) ==
    [NoBody EXCEPT !.nominal = nominal, !.transactionDate = transactionDate,
                   !.status = status, !.userId = userId]

\* A body that is not JSON.
MalformedBody == [NoBody EXCEPT !.malformed = TRUE]

Idle ==
    [route |-> "idle", cookie |-> NoCookie, at |-> 0, identity |-> NoClaims,
     year |-> Undefined, month |-> Undefined, body |-> NoBody,
     start |-> <<>>, end |-> <<>>]

\* c.json({success, message, ...}, status).  data holds the rows of a
\* monthly query or the one row of an insert; cookie is what setCookie did.
Envelope(status, success, message) ==
    [status |-> status, envelope |-> TRUE, success |-> success, message |-> message,
     data |-> <<>>, claims |-> NoClaims, summary |-> NoSummary,
     cookie |-> "untouched", token |-> NoCookie]

\* What the framework (Hono's default error handler) answers when a handler
\* throws: the bare text 'Internal Server Error', status 500.
Uncaught ==
    [status |-> 500, envelope |-> FALSE, success |-> FALSE,
     message |-> "Internal Server Error",
     data |-> <<>>, claims |-> NoClaims, summary |-> NoSummary,
     cookie |-> "untouched", token |-> NoCookie]

\* An answered request: the request, whether its route handler ran, the
\* storage statements it issued, the table its query read, the response.
Answered(req, ran, reads, writes, snap, resp) ==
    [route |-> req.route, cookie |-> req.cookie, at |-> req.at,
     identity |-> req.identity, year |-> req.year, month |-> req.month,
     body |-> req.body, start |-> req.start, end |-> req.end,
     ran |-> ran, reads |-> reads, writes |-> writes, snap |-> snap, resp |-> resp]

\* The value of last after a step that answered no request.
NoneYet == Answered(Idle, FALSE, 0, 0, <<>>, Envelope(0, FALSE, ""))

Request(route, cookie, year, month, body) ==
    [Idle EXCEPT !.route = route, !.cookie = cookie, !.at = now,
                 !.year = year, !.month = month, !.body = body]

(***************************************************************************)
(* authMiddleware                                                          *)
(***************************************************************************)
AuthMiddleware(cookie, t) ==
    IF CookieMissing(cookie)
    THEN [pass |-> FALSE, resp |-> Envelope(401, FALSE, "Unauthorized"), user |-> NoClaims]
    ELSE IF JwtVerify(cookie, t).threw
    THEN [pass |-> FALSE, resp |-> Envelope(401, FALSE, "Token tidak valid"), user |-> NoClaims]
    ELSE [pass |-> TRUE, resp |-> Envelope(200, TRUE, ""), user |-> JwtVerify(cookie, t).payload]

(***************************************************************************)
(* Start-up, the clock, the seeding script.                                *)
(***************************************************************************)
Init ==
    /\ secret \in BOOLEAN
    /\ serving = FALSE
    /\ now = 0
    /\ ticks = 0
    /\ users = <<>>
    /\ userSeq = 0
    /\ store = <<>>
    /\ txSeq = 0
    /\ inserts = 0
    /\ issued = {}
    /\ loggedOut = {}
    /\ pending = [s \in 1..MaxSlots |-> Idle]
    /\ last = NoneYet

\* The module's last statement: serve(...) or globalThis.app = app.
Boot ==
    /\ ~serving
    /\ serving' = TRUE
    /\ last' = NoneYet
    /\ UNCHANGED <<secret, now, ticks, users, userSeq, store, txSeq, inserts, issued,
                   loggedOut, pending>>

Tick(d) ==
    /\ ticks < MaxTicks
    /\ now' = now + d
    /\ ticks' = ticks + 1
    /\ last' = NoneYet
    /\ UNCHANGED <<secret, serving, users, userSeq, store, txSeq, inserts, issued,
                   loggedOut, pending>>

\* The user row of seed(): 'tester' with the hash of 'password123'.
SeedUser(id) == [id |-> id, username |-> "tester", password |-> BcryptHash("password123").hash]

SeedRows(id, userId) ==
    << [id |-> id, userId |-> userId, nominal |-> Amt(500000000, 0),
        transactionDate |-> DateOnly(2025, 10, 1), status |-> "income"],
       [id |-> id + 1, userId |-> userId, nominal |-> Amt(50000000, 0),
        transactionDate |-> DateOnly(2025, 10, 5), status |-> "outcome"] >>

\* seed(): both tables emptied, then user 'tester' and two transactions.
\* The script is run once, on the fresh database, before the server starts.
Seed ==
    /\ ~serving
    /\ userSeq = 0
    /\ users' = <<SeedUser(userSeq + 1)>>
    /\ userSeq' = userSeq + 1
    /\ store' = SeedRows(txSeq + 1, userSeq + 1)
    /\ txSeq' = txSeq + 2
    /\ last' = NoneYet
    /\ UNCHANGED <<secret, serving, now, ticks, inserts, issued, loggedOut, pending>>

(***************************************************************************)
(* POST /api/register, /api/login, /api/logout and GET /api/me.  Each is   *)
(* answered in one step: it holds at most one storage statement.  ok tells *)
(* whether the storage layer carries that statement out.                   *)
(***************************************************************************)
\* The unique constraint on users.username.
UsernameTaken(username) == \E i \in 1..Len(users) : users[i].username = username

\* db.query.users.findFirst({where: eq(users.username, username)})
FindFirst(username) ==
    IF UsernameTaken(username)
    THEN <<users[CHOOSE i \in 1..Len(users) :
                   /\ users[i].username = username
                   /\ \A j \in 1..(i - 1) : users[j].username # username]>>
    ELSE <<>>

MsgRegister == "Registrasi gagal"
MsgLogin == "Username atau password salah"

Register(body, ok) ==
    LET req    == Request("register", NoCookie, Undefined, Undefined, body)
        hashed == BcryptHash(body.password)
        row    == [id |-> userSeq + 1, username |-> body.username, password |-> hashed.hash]
    IN  /\ serving
        /\ userSeq < MaxUsers
        /\ IF body.malformed \/ hashed.threw
           THEN /\ last' = Answered(req, TRUE, 0, 0, <<>>, Envelope(400, FALSE, MsgRegister))
                /\ UNCHANGED <<users, userSeq>>
           ELSE IF ~ok \/ UsernameTaken(body.username)
           THEN /\ last' = Answered(req, TRUE, 0, 1, <<>>, Envelope(400, FALSE, MsgRegister))
                /\ UNCHANGED <<users, userSeq>>
           ELSE /\ users' = Append(users, row)
                /\ userSeq' = userSeq + 1
                /\ last' = Answered(req, TRUE, 0, 1, <<>>,
                                    [Envelope(201, TRUE, "") EXCEPT
                                        !.claims = [NoClaims EXCEPT !.id = row.id,
                                                                    !.username = row.username]])
        /\ UNCHANGED <<secret, serving, now, ticks, store, txSeq, inserts, issued, loggedOut, pending>>

Login(body, ok) ==
    LET req   == Request("login", NoCookie, Undefined, Undefined, body)
        found == FindFirst(body.username)
        user  == found[1]
    IN  /\ serving
        /\ Cardinality(issued) < MaxTokens
        /\ IF body.malformed
           THEN /\ last' = Answered(req, TRUE, 0, 0, <<>>, Uncaught)
                /\ UNCHANGED issued
           ELSE IF ~ok
           THEN /\ last' = Answered(req, TRUE, 1, 0, <<>>, Uncaught)
                /\ UNCHANGED issued
           ELSE IF found = <<>>
           THEN /\ last' = Answered(req, TRUE, 1, 0, <<>>, Envelope(401, FALSE, MsgLogin))
                /\ UNCHANGED issued
           ELSE IF BcryptCompare(body.password, user.password).threw
           THEN /\ last' = Answered(req, TRUE, 1, 0, <<>>, Uncaught)
                /\ UNCHANGED issued
           ELSE IF ~BcryptCompare(body.password, user.password).same
           THEN /\ last' = Answered(req, TRUE, 1, 0, <<>>, Envelope(401, FALSE, MsgLogin))
                /\ UNCHANGED issued
           ELSE IF JwtSign(user, now).threw
           THEN /\ last' = Answered(req, TRUE, 1, 0, <<>>, Uncaught)
                /\ UNCHANGED issued
           ELSE /\ last' = Answered(req, TRUE, 1, 0, <<>>,
                                    [Envelope(200, TRUE, "Login berhasil") EXCEPT
                                        !.cookie = "set",
                                        !.token = JwtSign(user, now).token])
                /\ issued' = issued \cup {[token |-> JwtSign(user, now).token, at |-> now]}
        /\ UNCHANGED <<secret, serving, now, ticks, users, userSeq, store, txSeq, inserts,
                       loggedOut, pending>>

Logout(cookie) ==
    /\ serving
    /\ last' = Answered(Request("logout", cookie, Undefined, Undefined, NoBody),
                        TRUE, 0, 0, <<>>,
                        [Envelope(200, TRUE, "Logout berhasil") EXCEPT !.cookie = "cleared"])
    /\ loggedOut' = IF cookie.kind = "jwt" THEN loggedOut \cup {cookie} ELSE loggedOut
    /\ UNCHANGED <<secret, serving, now, ticks, users, userSeq, store, txSeq, inserts,
                   issued, pending>>

Me(cookie) ==
    LET req == Request("me", cookie, Undefined, Undefined, NoBody)
    IN  /\ serving
        /\ last' =
             IF CookieMissing(cookie)
             THEN Answered(req, TRUE, 0, 0, <<>>, Envelope(401, FALSE, "Unauthorized"))
             ELSE IF JwtVerify(cookie, now).threw
             THEN Answered(req, TRUE, 0, 0, <<>>, Envelope(401, FALSE, "Token tidak valid"))
             ELSE Answered(req, TRUE, 0, 0, <<>>,
                           [Envelope(200, TRUE, "") EXCEPT
                               !.claims = JwtVerify(cookie, now).payload])
        /\ UNCHANGED <<secret, serving, now, ticks, users, userSeq, store, txSeq, inserts,
                       issued, loggedOut, pending>>

(***************************************************************************)
(* The protected routes.  A request runs authMiddleware and its handler up *)
(* to the storage statement in one step, is suspended on that statement,   *)
(* and is answered when the statement returns.                             *)
(***************************************************************************)
MsgInsert == "Gagal menambah transaksi"
MsgQuery == "Gagal mengambil transaksi"

\* The owner of a new row taken from the request body.
OwnerFromBody(req) == req.body.userId

\* The owner of a new row: c.get('user').id
OwnerOf(req) == req.identity.id

\* .values({userId, nominal: nominal.toString(), transactionDate, status}):
\* the decimal text of nominal is kept as the number it denotes; description,
\* a free text that no operation reads, is left out.
NewRow(req, id) ==
    [id |-> id, userId |-> OwnerOf(req), nominal |-> req.body.nominal,
     transactionDate |-> req.body.transactionDate, status |-> req.body.status]

PostTransactionBegin(s, cookie, body) ==
    LET gate == AuthMiddleware(cookie, now)
        req  == [Request("postTx", cookie, Undefined, Undefined, body) EXCEPT
                    !.identity = gate.user]
    IN  /\ serving
        /\ pending[s] = Idle
        /\ inserts < MaxTx
        /\ IF ~gate.pass
           THEN /\ last' = Answered(req, FALSE, 0, 0, <<>>, gate.resp)
                /\ UNCHANGED <<pending, inserts>>
           ELSE IF body.malformed \/ body.nominal.null
           THEN /\ last' = Answered(req, TRUE, 0, 0, <<>>, Envelope(400, FALSE, MsgInsert))
                /\ UNCHANGED <<pending, inserts>>
           ELSE /\ pending' = [pending EXCEPT ![s] = req]
                /\ inserts' = inserts + 1
                /\ last' = NoneYet
        /\ UNCHANGED <<secret, serving, now, ticks, users, userSeq, store, txSeq,
                       issued, loggedOut>>

PostTransactionInsert(s, ok) ==
    LET req == pending[s]
        row == NewRow(req, txSeq + 1)
    IN  /\ req.route = "postTx"
        /\ pending' = [pending EXCEPT ![s] = Idle]
        /\ IF ok
           THEN /\ store' = Append(store, row)
                /\ txSeq' = txSeq + 1
                /\ last' = Answered(req, TRUE, 0, 1, <<>>,
                                    [Envelope(201, TRUE, "") EXCEPT !.data = <<row>>])
           ELSE /\ last' = Answered(req, TRUE, 0, 1, <<>>, Envelope(400, FALSE, MsgInsert))
                /\ UNCHANGED <<store, txSeq, inserts>>
        /\ UNCHANGED <<secret, serving, now, ticks, users, userSeq, inserts, issued,
                       loggedOut>>

GetTransactionBegin(s, cookie, year, month) ==
    LET gate  == AuthMiddleware(cookie, now)
        range == MonthlyRange(year, month)
        req   == [Request("getTx", cookie, year, month, NoBody) EXCEPT
                     !.identity = gate.user]
    IN  /\ serving
        /\ pending[s] = Idle
        /\ IF ~gate.pass
           THEN /\ last' = Answered(req, FALSE, 0, 0, <<>>, gate.resp)
                /\ UNCHANGED pending
           ELSE IF range.status # 200
           THEN /\ last' = Answered(req, TRUE, 0, 0, <<>>,
                                    Envelope(range.status, FALSE, range.message))
                /\ UNCHANGED pending
           ELSE /\ pending' = [pending EXCEPT
                                  ![s] = [req EXCEPT !.start = range.start,
                                                     !.end = range.end]]
                /\ last' = NoneYet
        /\ UNCHANGED <<secret, serving, now, ticks, users, userSeq, store, txSeq, inserts,
                       issued, loggedOut>>

GetTransactionQuery(s, ok) ==
    LET req  == pending[s]
        rows == FindMany(store, req.identity.id, req.start, req.end)
    IN  /\ req.route = "getTx"
        /\ pending' = [pending EXCEPT ![s] = Idle]
        /\ last' =
             IF ok
             THEN Answered(req, TRUE, 1, 0, store,
                           [Envelope(200, TRUE, "") EXCEPT
                               !.data = rows, !.summary = Summary(rows)])
             ELSE Answered(req, TRUE, 1, 0, store, Envelope(500, FALSE, MsgQuery))
        /\ UNCHANGED <<secret, serving, now, ticks, users, userSeq, store, txSeq, inserts,
                       issued, loggedOut>>

(***************************************************************************)
(* The server from a fresh start, under its whole interface, one request   *)
(* at a time.                                                              *)
(***************************************************************************)
Day == ExpiresIn * MsPerSecond

Usernames == {"tester", "bob"}

\* Passwords of a registration: a string, or none (the field is absent).
Passwords == {"password123", NoField}

\* A token of well-formed claims that SECRET did not sign.
ForgedCookie ==
    Token("forged", [id |-> 1, username |-> "tester", iat |-> 0, exp |-> 10 * ExpiresIn])

Cookies == {NoCookie, EmptyCookie, GarbageCookie, ForgedCookie} \cup {i.token : i \in issued}

Bodies == {MalformedBody} \cup {Credentials(u, p) : u \in Usernames, p \in Passwords}

\* A login may also bring a password that is not the user's.
LoginBodies == Bodies \cup {Credentials(u, "wrong") : u \in Usernames}

Y2025 == <<"2", "0", "2", "5">>

\* Bodies of an insert: not JSON, without a nominal, and well-formed ones,
\* which name the row's owner themselves in userId (0: they do not).
TxBodies(owners) ==
    {MalformedBody, TxBody(NullAmt, DateOnly(2025, 10, 5), "outcome", 0)}
    \cup {TxBody(Amt(50000000, 0), DateOnly(2025, 10, 5), "outcome", u) : u \in owners}

Months == {Undefined, <<"1", "0">>, <<"1", "3">>}

Next ==
    \/ Boot
    \/ Seed
    \/ Tick(Day)
    \/ \E b \in Bodies, ok \in BOOLEAN : Register(b, ok)
    \/ \E b \in LoginBodies, ok \in BOOLEAN : Login(b, ok)
    \/ \E c \in Cookies : Logout(c)
    \/ \E c \in Cookies : Me(c)
    \/ \E c \in Cookies, b \in TxBodies({0}) : PostTransactionBegin(1, c, b)
    \/ \E ok \in BOOLEAN : PostTransactionInsert(1, ok)
    \/ \E c \in Cookies, m \in Months : GetTransactionBegin(1, c, Y2025, m)
    \/ \E ok \in BOOLEAN : GetTransactionQuery(1, ok)

Spec == Init /\ [][Next]_vars

(***************************************************************************)
(* One session against the clock.  The start is the server on the seeded   *)
(* database; 'tester' logs in and out and presents tokens while the clock  *)
(* advances by half a second or by a day less half a second.               *)
(***************************************************************************)
HalfSecond == 500

TickDeltas == {HalfSecond, Day - HalfSecond}

InitSession ==
    /\ secret = TRUE
    /\ serving = TRUE
    /\ now = 0
    /\ ticks = 0
    /\ users = <<SeedUser(1)>>
    /\ userSeq = 1
    /\ store = SeedRows(1, 1)
    /\ txSeq = 2
    /\ inserts = 0
    /\ issued = {}
    /\ loggedOut = {}
    /\ pending = [s \in 1..MaxSlots |-> Idle]
    /\ last = NoneYet

SessionBodies == {Credentials("tester", "password123"), Credentials("tester", "wrong")}

NextSession ==
    \/ \E d \in TickDeltas : Tick(d)
    \/ \E b \in SessionBodies : Login(b, TRUE)
    \/ \E c \in Cookies : Logout(c)
    \/ \E c \in Cookies : Me(c)
    \/ \E c \in Cookies : GetTransactionBegin(1, c, Y2025, <<"1", "0">>)
    \/ GetTransactionQuery(1, TRUE)

SpecSession == InitSession /\ [][NextSession]_vars

(***************************************************************************)
(* Two users at work at once.  The start is the server after 'tester' and  *)
(* 'bob' registered and logged in; requests of both are suspended and      *)
(* resumed in any order, and whole days pass.                              *)
(***************************************************************************)
Bob == [id |-> 2, username |-> "bob", password |-> BcryptHash("password123").hash]

\* The token of a login of user at clock 0.
TokenAtStart(user) == [token |-> JwtSign(user, 0).token, at |-> 0]

InitGate ==
    /\ secret = TRUE
    /\ serving = TRUE
    /\ now = 0
    /\ ticks = 0
    /\ users = <<SeedUser(1), Bob>>
    /\ userSeq = 2
    /\ store = <<>>
    /\ txSeq = 0
    /\ inserts = 0
    /\ issued = {TokenAtStart(SeedUser(1)), TokenAtStart(Bob)}
    /\ loggedOut = {}
    /\ pending = [s \in 1..MaxSlots |-> Idle]
    /\ last = NoneYet

NextGate ==
    \/ Tick(Day)
    \/ \E s \in 1..MaxSlots, c \in Cookies, b \in TxBodies({0, 1, 2}) :
          PostTransactionBegin(s, c, b)
    \/ \E s \in 1..MaxSlots, ok \in BOOLEAN : PostTransactionInsert(s, ok)
    \/ \E s \in 1..MaxSlots, c \in Cookies :
          GetTransactionBegin(s, c, Y2025, <<"1", "0">>)
    \/ \E s \in 1..MaxSlots, ok \in BOOLEAN : GetTransactionQuery(s, ok)

SpecGate == InitGate /\ [][NextGate]_vars

(***************************************************************************)
(* The monthly query over many query strings and stored dates.  The start  *)
(* is the server on the seeded database after 'tester' logged in.          *)
(***************************************************************************)
InitMonthly ==
    /\ secret = TRUE
    /\ serving = TRUE
    /\ now = 0
    /\ ticks = 0
    /\ users = <<SeedUser(1)>>
    /\ userSeq = 1
    /\ store = SeedRows(1, 1)
    /\ txSeq = 2
    /\ inserts = 0
    /\ issued = {TokenAtStart(SeedUser(1))}
    /\ loggedOut = {}
    /\ pending = [s \in 1..MaxSlots |-> Idle]
    /\ last = NoneYet

QueryYears ==
    { Undefined, <<>>, Y2025, <<"1", "8", "9", "9">>, <<"2", "1", "0", "0">>,
      <<"2", "1", "0", "1">>, <<"2", "0", "2", "5", "x">>, <<"0", "x", "7", "e", "9">>,
      <<"x">> }

QueryMonths ==
    { Undefined, <<"9">>, <<"1", "0">>, <<"1", "2">>, <<"0", "1", "2">>,
      <<"1", "x">>, <<"1", "3">>, <<"0">>, <<"x">> }

\* Dates on the bounds of October 2025: its first instant, and the first
\* instant of November as a date-time and as a date.
MonthlyDates == {Midnight(2025, 10, 1), Midnight(2025, 11, 1), DateOnly(2025, 11, 1)}

\* An income of 1.004 or an outcome of 0.006 on one of these dates.
MonthlyBodies ==
    {TxBody(Amt(100, 4), d, "income", 0) : d \in MonthlyDates}
    \cup {TxBody(Amt(0, 6), d, "outcome", 0) : d \in MonthlyDates}

\* The session cookie of the logged-in user.
MonthlyCookies == {i.token : i \in issued}

NextMonthly ==
    \/ \E c \in MonthlyCookies, b \in MonthlyBodies : PostTransactionBegin(1, c, b)
    \/ \E ok \in BOOLEAN : PostTransactionInsert(1, ok)
    \/ \E c \in MonthlyCookies, y \in QueryYears, m \in QueryMonths :
          GetTransactionBegin(1, c, y, m)
    \/ \E ok \in BOOLEAN : GetTransactionQuery(1, ok)

SpecMonthly == InitMonthly /\ [][NextMonthly]_vars

(***************************************************************************)
(* Properties.                                                             *)
(***************************************************************************)
Slots == 1..MaxSlots

\* The numbers a date-time 'YYYY-MM-DD hh:mm:ss' denotes, or <<>> for text
\* of another form.
StampFields(s) ==
    IF /\ Len(s) = 19
       /\ s[5] = "-" /\ s[8] = "-" /\ s[11] = " " /\ s[14] = ":" /\ s[17] = ":"
       /\ \A i \in (1..19) \ {5, 8, 11, 14, 17} : DigitVal(Digits, s[i]) >= 0
    THEN << DigitsValue(Digits, SubSeq(s, 1, 4), 0), DigitsValue(Digits, SubSeq(s, 6, 7), 0),
            DigitsValue(Digits, SubSeq(s, 9, 10), 0), DigitsValue(Digits, SubSeq(s, 12, 13), 0),
            DigitsValue(Digits, SubSeq(s, 15, 16), 0), DigitsValue(Digits, SubSeq(s, 18, 19), 0) >>
    ELSE <<>>

\* The first instant of the calendar month after month m of year y.
FirstOfNextMonth(y, m) ==
    IF m < 12 THEN <<y, m + 1, 1, 0, 0, 0>> ELSE <<y + 1, 1, 1, 0, 0, 0>>

\* The integers the query's year and month parse to.
YearOf(req) == ParseInt(req.year).val
MonthOf(req) == ParseInt(req.month).val

\* C1: the range end of every accepted monthly query is the first instant
\* of the next calendar month: day 1, 00:00:00 of month+1 of the same year,
\* or of January of year+1 when the month is 12.
C1_RangeEnd ==
    \A s \in Slots :
        pending[s].route = "getTx" =>
            StampFields(pending[s].end)
                = FirstOfNextMonth(YearOf(pending[s]), MonthOf(pending[s]))

\* A query for December 2100 is suspended on its storage statement with the
\* range end 2101-01-01 00:00:00.
C1_Witness ==
    \E s \in Slots :
        /\ pending[s].route = "getTx"
        /\ MonthOf(pending[s]) = 12
        /\ YearOf(pending[s]) = 2100
        /\ StampFields(pending[s].end) = <<2101, 1, 1, 0, 0, 0>>

\* The stored forms of midnight of day 1 of month m of year y.
FirstInstantForms(y, m) == {DateOnly(y, m, 1), Midnight(y, m, 1)}

Rows(seq) == {seq[i] : i \in 1..Len(seq)}

\* C2: a monthly query that succeeded returns every row of the requester
\* dated exactly at the range start, and no row dated exactly at the range
\* end, whether the row holds a date or a date-time.
C2_HalfOpen ==
    (last.route = "getTx" /\ last.resp.status = 200) =>
        LET y  == YearOf(last)
            m  == MonthOf(last)
            nx == FirstOfNextMonth(y, m)
        IN  \A t \in Rows(last.snap) :
                t.userId = last.identity.id =>
                    /\ t.transactionDate \in FirstInstantForms(y, m)
                          => t \in Rows(last.resp.data)
                    /\ t.transactionDate \in FirstInstantForms(nx[1], nx[2])
                          => t \notin Rows(last.resp.data)

\* C3: in every summary returned, balance = totalIncome - totalOutcome, each
\* of the three being the value returned, rounded to 2 decimals.
C3_BalanceOfRounded ==
    (last.route = "getTx" /\ last.resp.status = 200) =>
        last.resp.summary.balance
            = last.resp.summary.totalIncome - last.resp.summary.totalOutcome

\* Whether text parses to an integer of lo..hi.
ParsesInto(text, lo, hi) ==
    /\ text # Undefined
    /\ ~ParseInt(text).nan
    /\ ParseInt(text).val >= lo
    /\ ParseInt(text).val <= hi

\* The message of the first check a query fails.
FailingCheck(year, month) ==
    IF year \in {Undefined, <<>>} \/ month \in {Undefined, <<>>} THEN MsgRequired
    ELSE IF ~ParsesInto(month, 1, 12) THEN MsgMonth
    ELSE MsgYear

BadQuery(year, month) ==
    \/ year \in {Undefined, <<>>} \/ month \in {Undefined, <<>>}
    \/ ~ParsesInto(month, 1, 12)
    \/ ~ParsesInto(year, 1900, 2100)

\* C4: an authenticated monthly query whose month does not parse into 1..12,
\* whose year does not parse into 1900..2100, or that lacks either, is
\* answered 400 with the message of the failing check, and issues no storage
\* query: it is never suspended on one, and is answered with none issued.
C4_Validation ==
    /\ \A s \in Slots :
          pending[s].route = "getTx" => ~BadQuery(pending[s].year, pending[s].month)
    /\ (last.route = "getTx" /\ last.ran /\ BadQuery(last.year, last.month)) =>
          /\ last.resp.status = 400
          /\ last.resp.envelope /\ ~last.resp.success
          /\ last.resp.message = FailingCheck(last.year, last.month)
          /\ last.reads = 0
          /\ last.writes = 0

\* The authenticated query year=1899&month=12 is answered 400 with the
\* year's message.
C4_Witness ==
    /\ last.route = "getTx"
    /\ last.ran
    /\ ParsesInto(last.month, 1, 12)
    /\ ~ParsesInto(last.year, 1900, 2100)
    /\ last.resp.status = 400
    /\ last.resp.message = MsgYear

\* C10: the range start of every accepted monthly query is the first instant
\* of the month the parsed integers name, written 'YYYY-MM-01 00:00:00', and
\* precedes the range end.
C10_RangeStart ==
    \A s \in Slots :
        pending[s].route = "getTx" =>
            /\ pending[s].start = Midnight(YearOf(pending[s]), MonthOf(pending[s]), 1)
            /\ StrLess(pending[s].start, pending[s].end)

(***************************************************************************)
(* Sessions.                                                               *)
(***************************************************************************)
Protected == {"postTx", "getTx"}

Minted == {i.token : i \in issued}

\* Whether token was minted by a login and its expiry lies after clock t.
Verifies(token, t) == token \in Minted /\ ClockTimestamp(t) < token.claims.exp

SameIdentity(identity, token) ==
    /\ identity.id = token.claims.id
    /\ identity.username = token.claims.username

\* C5: a protected request without a cookie, or whose token was not minted
\* by this server or has expired, is answered 401, its handler does not run
\* and it issues no storage statement; a request whose handler runs, or that
\* is suspended on its storage statement, carries a token that verifies and
\* has the identity of its own token.
C5_AuthGate ==
    /\ (last.route \in Protected /\ ~Verifies(last.cookie, last.at)) =>
          /\ last.resp.status = 401
          /\ ~last.ran
          /\ last.reads = 0
          /\ last.writes = 0
    /\ (last.route \in Protected /\ last.ran) =>
          /\ Verifies(last.cookie, last.at)
          /\ SameIdentity(last.identity, last.cookie)
    /\ \A s \in Slots :
          pending[s].route \in Protected =>
              /\ Verifies(pending[s].cookie, pending[s].at)
              /\ SameIdentity(pending[s].identity, pending[s].cookie)

\* A protected request that presents a minted token after its expiry is
\* answered 401 while a request of the other user is suspended in its
\* handler under that user's identity.
C5_Witness ==
    /\ last.route \in Protected
    /\ last.cookie \in Minted
    /\ ClockTimestamp(last.at) >= last.cookie.claims.exp
    /\ last.resp.status = 401
    /\ ~last.ran
    /\ \E s \in Slots :
          /\ pending[s].route \in Protected
          /\ pending[s].identity.id # last.cookie.claims.id

\* What the monthly query for October 2025 returns to user u on table rows.
OctoberView(rows, u) ==
    LET range == MonthlyRange(Y2025, <<"1", "0">>)
        found == FindMany(rows, u, range.start, range.end)
    IN  [data |-> found, summary |-> Summary(found)]

UserIds == {users[i].id : i \in 1..Len(users)}

\* Every row a monthly query returns is owned by the id of the requester's
\* token.
C6_Returned ==
    (last.route = "getTx" /\ last.resp.status = 200) =>
        \A t \in Rows(last.resp.data) : t.userId = last.cookie.claims.id

\* The row an insert creates is owned by the id of the inserting request's
\* token, and is the row the table ends with.
C6_Created ==
    (last.route = "postTx" /\ last.resp.status = 201) =>
        /\ Len(last.resp.data) = 1
        /\ last.resp.data[1].userId = last.cookie.claims.id
        /\ store[Len(store)] = last.resp.data[1]

\* A step that inserts a row for one user leaves unchanged what the monthly
\* query returns to every other user.
C6_OthersUnchanged ==
    (last'.route = "postTx" /\ last'.resp.status = 201) =>
        \A u \in UserIds \ {last'.cookie.claims.id} :
            OctoberView(store', u) = OctoberView(store, u)

\* C6: under every interleaving of the users' inserts and monthly queries,
\* every row a query returns is owned by the id of the requester's token,
\* the row an insert creates is owned by the id of the inserting request's
\* token (not by a userId of its body), and an insert of one user changes
\* neither the rows nor the summary another user's query returns.
C6_Isolation == [](C6_Returned /\ C6_Created) /\ [][C6_OthersUnchanged]_vars

\* An insert whose body names another user as owner is answered 201 while
\* the table holds rows of another user than the inserting one.
C6_Witness ==
    /\ last.route = "postTx"
    /\ last.resp.status = 201
    /\ last.body.userId \notin {0, last.cookie.claims.id}
    /\ \E t \in Rows(store) : t.userId # last.cookie.claims.id

\* The answers that tell the server's verdict on the token a request
\* presents to /api/me or to the gate of a protected route.
Presented(token) ==
    /\ last.route \in Protected \cup {"me"}
    /\ last.cookie = token

AcceptedLast(token) ==
    IF last.route = "me"
    THEN last.resp.status = 200 /\ SameIdentity(last.resp.claims, token)
    ELSE last.ran /\ SameIdentity(last.identity, token)

RejectedLast == last.resp.status = 401 /\ (last.route \in Protected => ~last.ran)

\* The statement of C7 as claimed: a token minted at time at is accepted,
\* with the claims of its user, whenever presented before at + 24 h, and
\* rejected with 401 whenever presented after at + 24 h.
C7_AcceptedFor24Hours ==
    \A i \in issued :
        Presented(i.token) =>
            /\ last.at < i.at + Day => AcceptedLast(i.token)
            /\ last.at > i.at + Day => RejectedLast

\* C7: a token minted at time at is accepted by /api/me and by the gate,
\* with the id and username of its user, whenever the clock read in whole
\* seconds is below the whole second of at plus 86400, and is rejected with
\* 401 from that second on, whether or not its holder has logged out; a
\* request suspended in a protected handler was accepted so.
C7_ValidUntilExpiry ==
    /\ \A i \in issued :
          Presented(i.token) =>
              IF ClockTimestamp(last.at) < ClockTimestamp(i.at) + ExpiresIn
              THEN AcceptedLast(i.token)
              ELSE RejectedLast
    /\ \A s \in Slots :
          pending[s].route \in Protected =>
              \E i \in issued :
                  /\ pending[s].cookie = i.token
                  /\ ClockTimestamp(pending[s].at) < ClockTimestamp(i.at) + ExpiresIn
                  /\ SameIdentity(pending[s].identity, i.token)

\* /api/me accepts a token, more than 23 hours after its login, whose holder
\* has logged out.
C7_Witness ==
    /\ last.route = "me"
    /\ last.resp.status = 200
    /\ last.cookie \in loggedOut
    /\ \E i \in issued :
          /\ i.token = last.cookie
          /\ last.at >= i.at + Day - 2 * HalfSecond
          /\ SameIdentity(last.resp.claims, i.token)

\* C8: whatever fails while register, login, insert or the monthly query
\* handles a request, the answer is the envelope {success, message}; stated
\* of a process whose signing secret is set.
C8_AlwaysEnvelope ==
    (secret /\ last.route \in {"register", "login", "postTx", "getTx"})
        => last.resp.envelope

\* C9: no request is ever handled by a process without its signing secret.
C9_FailFast ==
    last.route \in {"login", "me", "postTx", "getTx"} => secret

=============================================================================
